---- MODULE Spec2Model ----
(***************************************************************************)
(* Horilla HRM mail slice: the visa-expiry notifier                        *)
(* (employee/signals.py), the logging mail backend and the per-company     *)
(* mail-configuration lookup (base/backends.py).                           *)
(*                                                                         *)
(* Each behaviour runs one of the three operations from its call to its    *)
(* return: Init draws the arguments and the environment (database rows,    *)
(* settings), the actions are the steps of the code, and the outcomes of   *)
(* the library calls (render_to_string, send_mail, the parent backend's    *)
(* send_messages, EmailLog.objects.create) are drawn by the step that      *)
(* makes the call.                                                         *)
(***************************************************************************)
EXTENDS Integers, Sequences, FiniteSets, TLC

\* ------------------------------------------------------------------ bounds
\* Days outside the notification window, on each side, that Init draws.
MaxSlack == 2
\* Rows of the auth User table.
MaxUsers == 2
\* Messages in one send_messages batch.
MaxBatch == 3
\* Rows of the DynamicEmailConfiguration table.
MaxConfigs == 2

\* --------------------------------------------------------------- constants
\* signals.py:26, "days > 30": last day of the notification window.
WindowDays == 30

VARIABLES
    pc,             \* position of the running operation
    log,            \* records written through logger.*, in order
    swallowed,      \* the exceptions caught by an except clause, in order
    \* --- employee_post_save(sender, instance, created)
    created,        \* the signal's created flag
    instance,       \* the Employee: visa_expire_date, email, get_email
    today,          \* date.today() as a day number
    users,          \* the User table, in primary-key order
    days,           \* local: days to expiry
    admin_emails,   \* local: list of the superusers' email values
    emp_email,      \* local: resolved employee address
    sends,          \* the send_mail calls made, in order
    \* --- ConfiguredEmailBackend.send_messages(email_messages)
    email_messages, \* the argument: None, or a list of messages
    parent,         \* what the parent's send_messages did: raised, or returned value
    response,       \* local: the parent's return value, 0 after an exception
    sent_flag,      \* local: bool(response)
    exception_text, \* local: None, or the traceback text
    idx,            \* local: position of the audit loop in the batch
    writes,         \* the messages EmailLog.objects.create was called for
    rows,           \* the EmailLog table
    returned,       \* the value returned to the caller, NoReturn before
    \* --- DefaultHorillaMailBackend.__init__ and get_dynamic_email_config
    request,        \* _thread_locals.request and its user
    store,          \* the DynamicEmailConfiguration table, in primary-key order
    company,        \* local: the user's company, NoCompany for None
    configuration,  \* the record found, NoConfiguration for None
    cache,          \* the keys set in the cache
    resolved,       \* the transport parameters handed to the SMTP backend
    \* --- make_email(subject, template_name, context, plain_message, from_email, ...)
    margs,          \* which of the arguments are given
    user_id,        \* local: the user's pk, "" without an authenticated user
    msg             \* the EmailMessage built, NoMessage before

nvars == <<created, instance, today, users, days, admin_emails, emp_email, sends>>
bvars == <<email_messages, parent, response, sent_flag, exception_text, idx, writes, rows, returned>>
rvars == <<request, store, company, configuration, cache, resolved>>
fvars == <<margs, user_id, msg>>
vars == <<pc, log, swallowed, nvars, bvars, rvars, fvars>>

\* Python's None, for the values that are strings otherwise.
NoneStr == "None"
\* instance.visa_expire_date when the field is null.
NoDate == -1000
\* days before it is computed.
NoDays == -1000

\* returned before send_messages returns.
NoReturn == -1
\* parent before the parent's send_messages is called.
NotCalled == [called |-> FALSE, raised |-> FALSE, value |-> 0]
\* send_messages(None)
NoMessages == [is_none |-> TRUE, list |-> <<>>]

\* A company id that is None, and company_id of a row where it is NULL.
NoCompany == 0
\* configuration when no record is found.
NoConfiguration == [pk |-> 0, company_id |-> 0, is_primary |-> FALSE, unset |-> {}]
\* resolved before __init__ resolves the parameters.
Unresolved == <<>>
\* make_email called with no argument given.
NoArgs == [from_email |-> FALSE, reply_to |-> FALSE, template_name |-> FALSE,
           context |-> FALSE, plain_message |-> FALSE]
\* msg before make_email builds the message.
NoMessage == [from_email |-> NoneStr, reply_to |-> NoneStr, body |-> NoneStr,
              content_subtype |-> NoneStr]

\* ------------------------------------------------- employee/signals.py
\* The rows of the User table Init draws from: a superuser without an
\* email, a superuser with one, a plain user.
UserKinds ==
    { [is_superuser |-> TRUE, email |-> ""],
      [is_superuser |-> TRUE, email |-> "admin@x"],
      [is_superuser |-> FALSE, email |-> "staff@x"] }

SeqsUpTo(S, n) == UNION { [1..k -> S] : k \in 0..n }

\* date.today(), as a day number that leaves room for the days before it.
Today == MaxSlack

\* What get_email() does when called: return a value, or raise.
Raises == "RAISES"
Employees ==
    { [visa_expire_date |-> v, email |-> e, has_get_email |-> h, get_email |-> g] :
        v \in {NoDate} \cup (Today - MaxSlack)..(Today + WindowDays + MaxSlack),
        e \in {"", "emp@x"},
        h \in BOOLEAN,
        g \in {"", "work@x", Raises} }

\* Python truthiness of a str-or-None value.
Truthy(s) == s # "" /\ s # NoneStr

\* signals.py:24  (instance.visa_expire_date - date.today()).days
DaysUntil(visa, now) == visa - now

\* The window with its last day left out.
InWindowExclusive(d) == ~(d < 0 \/ d >= WindowDays)

\* signals.py:26  the negation of "days < 0 or days > 30"
InWindow(d) == ~(d < 0 \/ d > WindowDays)

\* signals.py:30-32  User.objects.filter(is_superuser=True).values_list("email", flat=True)
RECURSIVE SuperuserEmails(_)
SuperuserEmails(us) ==
    IF us = <<>> THEN <<>>
    ELSE IF Head(us).is_superuser
         THEN <<Head(us).email>> \o SuperuserEmails(Tail(us))
         ELSE SuperuserEmails(Tail(us))

\* signals.py:41  "if admin_emails:" a list is truthy when it has an element.
HasAdminRecipients(emails) == Len(emails) > 0

\* signals.py:65-68  get_email() when the instance has it, the email field
\* otherwise and when get_email() raises.
ResolveEmpEmail(e) ==
    IF e.has_get_email
    THEN IF e.get_email = Raises THEN e.email ELSE e.get_email
    ELSE e.email

\* The outcomes of send_mail(..., fail_silently=True): the message is handed
\* over ("sent"), the transport fails and the failure is silenced ("silenced",
\* send_mail returns 0), or an exception that fail_silently does not cover
\* leaves send_mail ("raised": fail_silently silences only the SMTP and
\* socket errors of the transport, not e.g. the ValueError the SMTP
\* backend's constructor raises when use_tls and use_ssl are both set, which
\* DefaultHorillaMailBackend.__init__ does not catch, backends.py:83).
SendOutcomes == {"sent", "silenced", "raised"}

Attempt(to, kind, step, outcome) ==
    [to |-> to, kind |-> kind, step |-> step, outcome |-> outcome]

\* The notifier's variables while another operation runs.
NotifierIdle ==
    /\ created = FALSE
    /\ instance = [visa_expire_date |-> NoDate, email |-> "",
                   has_get_email |-> FALSE, get_email |-> ""]
    /\ today = Today
    /\ users = <<>>
    /\ days = NoDays
    /\ admin_emails = <<>>
    /\ emp_email = NoneStr
    /\ sends = <<>>

\* The backend's variables before send_messages runs.
BackendLocals ==
    /\ parent = NotCalled
    /\ response = 0
    /\ sent_flag = FALSE
    /\ exception_text = NoneStr
    /\ idx = 1
    /\ writes = <<>>
    /\ rows = <<>>
    /\ returned = NoReturn

BackendIdle ==
    /\ email_messages = NoMessages
    /\ BackendLocals

\* The lookup's variables before it runs.
ResolverLocals ==
    /\ company = NoCompany
    /\ configuration = NoConfiguration
    /\ cache = {}
    /\ resolved = Unresolved

\* The factory's variables before make_email runs.
FactoryLocals ==
    /\ user_id = ""
    /\ msg = NoMessage

FactoryIdle ==
    /\ margs = NoArgs
    /\ FactoryLocals

ResolverIdle ==
    /\ request = [kind |-> "none", company |-> NoCompany, raises |-> FALSE]
    /\ store = <<>>
    /\ ResolverLocals

InitNotifier ==
    /\ pc = "n_start"
    /\ log = <<>>
    /\ swallowed = <<>>
    /\ BackendIdle
    /\ ResolverIdle
    /\ FactoryIdle
    /\ created \in BOOLEAN
    /\ instance \in Employees
    /\ (~instance.has_get_email => instance.get_email = "")
    /\ today = Today
    /\ users \in SeqsUpTo(UserKinds, MaxUsers)
    /\ days = NoDays
    /\ admin_emails = <<>>
    /\ emp_email = NoneStr
    /\ sends = <<>>

\* signals.py:18-41  the guards, the admin list, and the branch on it.
NotifierEntry ==
    /\ pc = "n_start"
    /\ IF ~created \/ instance.visa_expire_date = NoDate
       THEN /\ pc' = "n_returned"
            /\ UNCHANGED <<days, admin_emails>>
       ELSE /\ days' = DaysUntil(instance.visa_expire_date, today)
            /\ IF ~InWindow(days')
               THEN /\ pc' = "n_returned"
                    /\ UNCHANGED admin_emails
               ELSE /\ admin_emails' = SuperuserEmails(users)
                    /\ pc' = IF HasAdminRecipients(admin_emails')
                             THEN "n_admin_render" ELSE "n_emp_resolve"
    /\ UNCHANGED <<log, swallowed, bvars, rvars, fvars, created, instance, today, users, emp_email, sends>>

\* signals.py:44-47  render_to_string of the admin template: returns or raises.
AdminRender ==
    /\ pc = "n_admin_render"
    /\ \E ok \in BOOLEAN :
        /\ pc' = IF ok THEN "n_admin_send" ELSE "n_admin_fallback"
        /\ swallowed' = IF ok THEN swallowed ELSE Append(swallowed, "template render")
    /\ UNCHANGED <<log, bvars, rvars, fvars, nvars>>

\* signals.py:48-56  the templated admin send, inside the try: an exception
\* leaving send_mail is caught by "except Exception" like one from the render.
AdminSend ==
    /\ pc = "n_admin_send"
    /\ \E o \in SendOutcomes :
        /\ sends' = Append(sends, Attempt(admin_emails, "html", "admin", o))
        /\ pc' = IF o = "raised" THEN "n_admin_fallback" ELSE "n_emp_resolve"
        /\ swallowed' = IF o = "raised" THEN Append(swallowed, "transport send") ELSE swallowed
    /\ UNCHANGED <<log, bvars, rvars, fvars, created, instance, today, users, days, admin_emails, emp_email>>

\* signals.py:56-62  the plain-text admin send, in the except clause: an
\* exception leaving send_mail here leaves the handler.
AdminFallback ==
    /\ pc = "n_admin_fallback"
    /\ \E o \in SendOutcomes :
        /\ sends' = Append(sends, Attempt(admin_emails, "plain", "admin", o))
        /\ pc' = IF o = "raised" THEN "n_raised" ELSE "n_emp_resolve"
    /\ UNCHANGED <<log, swallowed, bvars, rvars, fvars, created, instance, today, users, days, admin_emails, emp_email>>

\* signals.py:65-70  the employee's address and the branch on it.
EmpResolve ==
    /\ pc = "n_emp_resolve"
    /\ emp_email' = ResolveEmpEmail(instance)
    /\ swallowed' = IF instance.has_get_email /\ instance.get_email = Raises
                    THEN Append(swallowed, "employee address") ELSE swallowed
    /\ pc' = IF Truthy(emp_email') THEN "n_emp_render" ELSE "n_returned"
    /\ UNCHANGED <<log, bvars, rvars, fvars, created, instance, today, users, days, admin_emails, sends>>

\* signals.py:73-76  render_to_string of the employee template.
EmpRender ==
    /\ pc = "n_emp_render"
    /\ \E ok \in BOOLEAN :
        /\ pc' = IF ok THEN "n_emp_send" ELSE "n_emp_fallback"
        /\ swallowed' = IF ok THEN swallowed ELSE Append(swallowed, "template render")
    /\ UNCHANGED <<log, bvars, rvars, fvars, nvars>>

\* signals.py:77-85  the templated employee send, inside the try.
EmpSend ==
    /\ pc = "n_emp_send"
    /\ \E o \in SendOutcomes :
        /\ sends' = Append(sends, Attempt(<<emp_email>>, "html", "employee", o))
        /\ pc' = IF o = "raised" THEN "n_emp_fallback" ELSE "n_returned"
        /\ swallowed' = IF o = "raised" THEN Append(swallowed, "transport send") ELSE swallowed
    /\ UNCHANGED <<log, bvars, rvars, fvars, created, instance, today, users, days, admin_emails, emp_email>>

\* signals.py:85-92  the plain-text employee send, in the except clause.
EmpFallback ==
    /\ pc = "n_emp_fallback"
    /\ \E o \in SendOutcomes :
        /\ sends' = Append(sends, Attempt(<<emp_email>>, "plain", "employee", o))
        /\ pc' = IF o = "raised" THEN "n_raised" ELSE "n_returned"
    /\ UNCHANGED <<log, swallowed, bvars, rvars, fvars, created, instance, today, users, days, admin_emails, emp_email>>

NotifierNext ==
    \/ NotifierEntry
    \/ AdminRender
    \/ AdminSend
    \/ AdminFallback
    \/ EmpResolve
    \/ EmpRender
    \/ EmpSend
    \/ EmpFallback

\* ------------------------------------------------- base/backends.py
\* The batches Init draws: None, and the lists of 0..MaxBatch messages.
\* A message is known by its position in the batch.
Batches ==
    {NoMessages} \cup { [is_none |-> FALSE, list |-> [i \in 1..n |-> i]] : n \in 0..MaxBatch }

\* backends.py:236  "email_messages or []"
MessageList(b) == IF b.is_none THEN <<>> ELSE b.list

\* Every return of the parent counted as a send.
AnyReturnIsSent(r) == TRUE

\* backends.py:226  bool(response) of an int
SentFlag(r) == r # 0

\* The traceback not captured.
NoTraceback == NoneStr

\* backends.py:231  traceback.format_exc() inside the except clause: the
\* text of the exception being handled, never empty.
FormatExc == "Traceback (most recent call last): ..."

\* backends.py:246  "sent" if sent_flag else "failed"
StatusOf(flag) == IF flag THEN "sent" ELSE "failed"

\* backends.py:238-248  the row EmailLog.objects.create is called with.
EmailLogRow(message, flag, text) ==
    [message |-> message, status |-> StatusOf(flag), error_message |-> text]

InitBackend ==
    /\ pc = "b_start"
    /\ log = <<>>
    /\ swallowed = <<>>
    /\ NotifierIdle
    /\ ResolverIdle
    /\ FactoryIdle
    /\ email_messages \in Batches
    /\ BackendLocals

\* backends.py:223-227  the parent's send_messages returns a count.
ParentSendReturns ==
    /\ pc = "b_start"
    /\ \E r \in 0..Len(MessageList(email_messages)) :
        /\ parent' = [called |-> TRUE, raised |-> FALSE, value |-> r]
        /\ response' = r
        /\ sent_flag' = SentFlag(r)
    /\ exception_text' = NoneStr
    /\ pc' = "b_audit"
    /\ UNCHANGED <<log, swallowed, nvars, rvars, fvars, email_messages, idx, writes, rows, returned>>

\* backends.py:228-233  the parent's send_messages raises.
ParentSendRaises ==
    /\ pc = "b_start"
    /\ parent' = [called |-> TRUE, raised |-> TRUE, value |-> 0]
    /\ log' = Append(log, "Error while sending messages in backend.")
    /\ swallowed' = Append(swallowed, "transport send")
    /\ exception_text' = FormatExc
    /\ response' = 0
    /\ sent_flag' = FALSE
    /\ pc' = "b_audit"
    /\ UNCHANGED <<nvars, rvars, fvars, email_messages, idx, writes, rows, returned>>

\* The audit loop without its try: a failed write leaves send_messages.
AuditWriteUnguarded ==
    /\ pc = "b_audit"
    /\ idx <= Len(MessageList(email_messages))
    /\ LET message == MessageList(email_messages)[idx] IN
        /\ writes' = Append(writes, message)
        /\ \E stored \in BOOLEAN :
            IF stored
            THEN /\ rows' = Append(rows, EmailLogRow(message, sent_flag, exception_text))
                 /\ pc' = pc
            ELSE /\ rows' = rows
                 /\ pc' = "b_raised"
    /\ idx' = idx + 1
    /\ UNCHANGED <<log, swallowed, nvars, rvars, fvars, email_messages, parent, response, sent_flag, exception_text, returned>>

\* The audit loop with the try around the loop: a failed write ends it.
AuditWriteAborting ==
    /\ pc = "b_audit"
    /\ idx <= Len(MessageList(email_messages))
    /\ LET message == MessageList(email_messages)[idx] IN
        /\ writes' = Append(writes, message)
        /\ \E stored \in BOOLEAN :
            IF stored
            THEN /\ rows' = Append(rows, EmailLogRow(message, sent_flag, exception_text))
                 /\ log' = log
                 /\ swallowed' = swallowed
                 /\ idx' = idx + 1
            ELSE /\ rows' = rows
                 /\ log' = Append(log, "Failed to write EmailLog entry.")
                 /\ swallowed' = Append(swallowed, "audit write")
                 /\ idx' = Len(MessageList(email_messages)) + 1
    /\ UNCHANGED <<pc, nvars, rvars, fvars, email_messages, parent, response, sent_flag, exception_text, returned>>

\* backends.py:236-251  one turn of the audit loop: EmailLog.objects.create
\* stores the row or raises; the loop goes on to the next message.
AuditWrite ==
    /\ pc = "b_audit"
    /\ idx <= Len(MessageList(email_messages))
    /\ LET message == MessageList(email_messages)[idx] IN
        /\ writes' = Append(writes, message)
        /\ \E stored \in BOOLEAN :
            IF stored
            THEN /\ rows' = Append(rows, EmailLogRow(message, sent_flag, exception_text))
                 /\ log' = log
                 /\ swallowed' = swallowed
            ELSE /\ rows' = rows
                 /\ log' = Append(log, "Failed to write EmailLog entry.")
                 /\ swallowed' = Append(swallowed, "audit write")
    /\ idx' = idx + 1
    /\ UNCHANGED <<pc, nvars, rvars, fvars, email_messages, parent, response, sent_flag, exception_text, returned>>

\* backends.py:253  return response
BackendReturn ==
    /\ pc = "b_audit"
    /\ idx > Len(MessageList(email_messages))
    /\ returned' = response
    /\ pc' = "b_returned"
    /\ UNCHANGED <<log, swallowed, nvars, rvars, fvars, email_messages, parent, response, sent_flag, exception_text, idx, writes, rows>>

BackendNext ==
    \/ ParentSendReturns
    \/ ParentSendRaises
    \/ AuditWrite
    \/ BackendReturn

\* ------------------------- base/backends.py: DefaultHorillaMailBackend
\* The transport parameters __init__ resolves, backends.py:72-79.
Params ==
    {"host", "port", "username", "password", "use_tls", "fail_silently", "use_ssl", "timeout"}

\* The companies of the rows and of the users.
Companies == {1, 2}

\* The tables Init draws: up to MaxConfigs rows, each of any company or of
\* none, primary or not, complete or with the field u left unset (None or
\* empty). pk is the row's position in the table.
ConfigRows(u) ==
    { [company_id |-> c, is_primary |-> b, unset |-> x] :
        c \in Companies \cup {NoCompany}, b \in BOOLEAN, x \in {{}, {u}} }

StoresWith(u) ==
    UNION { { [i \in 1..k |-> [pk |-> i, company_id |-> f[i].company_id,
                               is_primary |-> f[i].is_primary, unset |-> f[i].unset]] :
                f \in [1..k -> ConfigRows(u)] } : k \in 0..MaxConfigs }

Stores == UNION { StoresWith(u) : u \in Params }

\* The requests Init draws: no request in the thread-local, an anonymous
\* user, an authenticated user whose get_company() returns a company or
\* None, or raises.
Requests ==
    { [kind |-> "none", company |-> NoCompany, raises |-> FALSE],
      [kind |-> "anonymous", company |-> NoCompany, raises |-> FALSE],
      [kind |-> "auth", company |-> NoCompany, raises |-> TRUE] }
    \cup { [kind |-> "auth", company |-> c, raises |-> FALSE] :
                c \in Companies \cup {NoCompany} }

\* QuerySet.first(): of the rows at the positions hits, the one of the
\* lowest primary key, or None.
FirstRow(table, hits) ==
    IF hits = {} THEN NoConfiguration
    ELSE table[CHOOSE i \in hits : \A j \in hits : i <= j]

\* backends.py:116  DynamicEmailConfiguration.objects.filter(company_id=company).first()
\* (a None company selects the rows whose company_id is NULL).
ByCompany(table, c) ==
    FirstRow(table, { i \in 1..Len(table) : table[i].company_id = c })

\* backends.py:119  DynamicEmailConfiguration.objects.filter(is_primary=True).first()
ByPrimary(table) ==
    FirstRow(table, { i \in 1..Len(table) : table[i].is_primary })

\* The lookup with the two queries in the other order.
LookupPrimaryFirst(table, c) ==
    IF ByPrimary(table) # NoConfiguration
    THEN ByPrimary(table)
    ELSE ByCompany(table, c)

\* backends.py:115-119  the company's record, else the primary one, else None.
LookupConfiguration(table, c) ==
    IF ByCompany(table, c) # NoConfiguration
    THEN ByCompany(table, c)
    ELSE ByPrimary(table)

\* A parameter's value says where it comes from: a field of record pk, an
\* unset field (None or empty), or the settings module.
FromRecord(pk) == [from |-> "record", pk |-> pk]
UnsetValue == [from |-> "unset", pk |-> 0]
FromSettings == [from |-> "settings", pk |-> 0]

\* getattr(self.configuration, p, None)
FieldOf(conf, p) == IF p \in conf.unset THEN UnsetValue ELSE FromRecord(conf.pk)

\* The accessors with a fallback per field: "getattr(conf, p, None) or setting".
DynamicPerField(conf, p) ==
    IF conf # NoConfiguration /\ FieldOf(conf, p) # UnsetValue
    THEN FieldOf(conf, p)
    ELSE FromSettings

\* backends.py:146-190  the dynamic_* properties: the record's field when a
\* record was found, the setting otherwise.
Dynamic(conf, p) ==
    IF conf # NoConfiguration THEN FieldOf(conf, p) ELSE FromSettings

InitResolver ==
    /\ pc = "r_start"
    /\ log = <<>>
    /\ swallowed = <<>>
    /\ NotifierIdle
    /\ BackendIdle
    /\ request \in Requests
    /\ store \in Stores
    /\ ResolverLocals
    /\ FactoryIdle

\* backends.py:103-112  the company of the request's user; None without an
\* authenticated user and when the lookup raises.
DeriveCompany ==
    /\ pc = "r_start"
    /\ IF request.kind = "auth"
       THEN IF request.raises
            THEN /\ company' = NoCompany
                 /\ log' = Append(log, "Could not determine company from request user.")
                 /\ swallowed' = Append(swallowed, "configuration lookup")
            ELSE /\ company' = request.company
                 /\ log' = log
                 /\ swallowed' = swallowed
       ELSE /\ company' = NoCompany
            /\ log' = log
            /\ swallowed' = swallowed
    /\ pc' = "r_query"
    /\ UNCHANGED <<nvars, bvars, fvars, request, store, configuration, cache, resolved>>

\* backends.py:114-119, 126  the queries return.
QueryReturns ==
    /\ pc = "r_query"
    /\ configuration' = LookupConfiguration(store, company)
    /\ pc' = IF configuration' # NoConfiguration THEN "r_cache" ELSE "r_init"
    /\ UNCHANGED <<log, swallowed, nvars, bvars, fvars, request, store, company, cache, resolved>>

\* backends.py:120-123  a query raises (database not available).
QueryRaises ==
    /\ pc = "r_query"
    /\ configuration' = NoConfiguration
    /\ log' = Append(log, "Error querying DynamicEmailConfiguration.")
    /\ swallowed' = Append(swallowed, "configuration lookup")
    /\ pc' = "r_init"
    /\ UNCHANGED <<nvars, bvars, fvars, request, store, company, cache, resolved>>

\* backends.py:127-139  the keys set for the request's user when nothing raises.
CacheKeys(req) ==
    IF req.kind = "auth"
    THEN <<"reply_to<pk>", "dynamic_display_name<pk>">>
    ELSE <<"dynamic_display_name">>

\* backends.py:126-141  the display name and reply-to are cached; an
\* exception (the user has no employee, the cache is down) ends the block
\* after the first n keys and is logged.
CacheDisplayName ==
    /\ pc = "r_cache"
    /\ \E n \in 0..Len(CacheKeys(request)) :
        /\ cache' = { CacheKeys(request)[i] : i \in 1..n }
        /\ log' = IF n = Len(CacheKeys(request)) THEN log
                  ELSE Append(log, "Failed to cache dynamic display name/reply_to.")
        /\ swallowed' = IF n = Len(CacheKeys(request)) THEN swallowed
                        ELSE Append(swallowed, "cache write")
    /\ pc' = "r_init"
    /\ UNCHANGED <<nvars, bvars, fvars, request, store, company, configuration, resolved>>

\* backends.py:54, 72-95  __init__ keeps the configuration and hands the
\* resolved parameters to the SMTP backend's constructor.
ResolveParams ==
    /\ pc = "r_init"
    /\ resolved' = [p \in Params |-> Dynamic(configuration, p)]
    /\ pc' = "r_done"
    /\ UNCHANGED <<log, swallowed, nvars, bvars, fvars, request, store, company, configuration, cache>>

ResolverNext ==
    \/ DeriveCompany
    \/ QueryReturns
    \/ QueryRaises
    \/ CacheDisplayName
    \/ ResolveParams

\* ------------------------------------- base/backends.py: make_email
\* The argument combinations Init draws: each of from_email, reply_to,
\* template_name, context and plain_message given (truthy; for context,
\* not None) or not.
ArgChoices ==
    [from_email : BOOLEAN, reply_to : BOOLEAN, template_name : BOOLEAN,
     context : BOOLEAN, plain_message : BOOLEAN]

\* The keys the cache may hold when make_email runs.
CachedKeys == {"reply_to<pk>", "dynamic_display_name<pk>", "dynamic_display_name"}

\* backends.py:283  request and request.user and request.user.is_authenticated
IsAuthenticated(req) == req.kind = "auth"

\* backends.py:286  reply_to or cache.get(f"reply_to{user_id}")
ReplyTo(args, keys) ==
    IF args.reply_to THEN "argument"
    ELSE IF "reply_to<pk>" \in keys THEN "cache" ELSE NoneStr

\* backends.py:290-291  from_email, else the cached display name of the
\* user, else settings.DEFAULT_FROM_EMAIL.
FromEmail(args, uid, keys) ==
    IF args.from_email THEN "argument"
    ELSE IF ("dynamic_display_name" \o uid) \in keys THEN "cache" ELSE "settings"

\* backends.py:293  plain_message or ""
PlainBody(args) == IF args.plain_message THEN "plain_message" ELSE ""

InitFactory ==
    /\ pc = "f_start"
    /\ log = <<>>
    /\ swallowed = <<>>
    /\ NotifierIdle
    /\ BackendIdle
    /\ request \in Requests
    /\ store = <<>>
    /\ company = NoCompany
    /\ configuration = NoConfiguration
    /\ cache \in SUBSET CachedKeys
    /\ resolved = Unresolved
    /\ margs \in ArgChoices
    /\ FactoryLocals

\* backends.py:280-288  the user's pk and the cached reply_to; an exception
\* (from the user object before user_id is set, or from cache.get, called
\* only when no reply_to was given) is logged at debug level and leaves
\* reply_to as given.
FactoryLookup ==
    /\ pc = "f_start"
    /\ \E outcome \in {"ok", "user raises", "cache raises"} :
        /\ (outcome # "ok" => request.kind # "none")
        /\ (outcome = "cache raises" => IsAuthenticated(request) /\ ~margs.reply_to)
        /\ user_id' = IF IsAuthenticated(request) /\ outcome # "user raises"
                      THEN "<pk>" ELSE ""
        /\ msg' = [msg EXCEPT !.reply_to =
                        IF IsAuthenticated(request) /\ outcome = "ok"
                        THEN ReplyTo(margs, cache)
                        ELSE IF margs.reply_to THEN "argument" ELSE NoneStr]
        /\ IF outcome = "ok"
           THEN /\ log' = log
                /\ swallowed' = swallowed
           ELSE /\ log' = Append(log, "Could not obtain request/user for dynamic reply_to.")
                /\ swallowed' = Append(swallowed, "configuration lookup")
    /\ pc' = "f_build"
    /\ UNCHANGED <<nvars, bvars, rvars, margs>>

\* backends.py:290-303  the sender and the plain body; cache.get is outside
\* any try, so an exception from it leaves make_email.
FactoryBuild ==
    /\ pc = "f_build"
    /\ \E ok \in BOOLEAN :
        /\ (~ok => ~margs.from_email)
        /\ IF ok
           THEN /\ msg' = [msg EXCEPT !.from_email = FromEmail(margs, user_id, cache),
                                      !.body = PlainBody(margs),
                                      !.content_subtype = "plain"]
                /\ pc' = IF margs.template_name /\ margs.context
                         THEN "f_render" ELSE "f_returned"
           ELSE /\ msg' = msg
                /\ pc' = "f_raised"
    /\ UNCHANGED <<log, swallowed, nvars, bvars, rvars, margs, user_id>>

\* backends.py:306-314  the template is rendered into the body; an
\* exception is logged and the plain body kept.
FactoryRender ==
    /\ pc = "f_render"
    /\ \E ok \in BOOLEAN :
        IF ok
        THEN /\ msg' = [msg EXCEPT !.body = "html", !.content_subtype = "html"]
             /\ log' = log
             /\ swallowed' = swallowed
        ELSE /\ msg' = msg
             /\ log' = Append(log, "Failed to render email template; falling back to plain body.")
             /\ swallowed' = Append(swallowed, "template render")
    /\ pc' = "f_returned"
    /\ UNCHANGED <<nvars, bvars, rvars, margs, user_id>>

FactoryNext ==
    \/ FactoryLookup
    \/ FactoryBuild
    \/ FactoryRender

Init == InitNotifier \/ InitBackend \/ InitResolver \/ InitFactory
Next == NotifierNext \/ BackendNext \/ ResolverNext \/ FactoryNext
Spec == Init /\ [][Next]_vars
SpecNotifier == InitNotifier /\ [][NotifierNext]_vars
SpecBackend == InitBackend /\ [][BackendNext]_vars
SpecResolver == InitResolver /\ [][ResolverNext]_vars
SpecFactory == InitFactory /\ [][FactoryNext]_vars

\* ================================================================ claims
\* ------------------------------------------------ employee_post_save
\* The handler has returned, or an exception has left it.
NotifierDone == pc \in {"n_returned", "n_raised"}

\* The save is a creation of an employee whose visa expires 0..30 days from today.
Triggered ==
    /\ created
    /\ instance.visa_expire_date # NoDate
    /\ instance.visa_expire_date - today >= 0
    /\ instance.visa_expire_date - today <= WindowDays

\* A superuser has an email address, or the employee has one.
AddressAvailable ==
    \/ \E i \in 1..Len(users) : users[i].is_superuser /\ users[i].email # ""
    \/ Truthy(ResolveEmpEmail(instance))

AttemptsOf(step) == { i \in 1..Len(sends) : sends[i].step = step }

\* C1: send_mail is never called for a save that is an update, has no visa
\* date, or has a date outside 0..30 days; and once the handler has ended
\* for a creation inside the window, with an admin or employee address
\* available, send_mail has been called.
C1_SendIffCreatedInWindow ==
    /\ (sends # <<>> => Triggered)
    /\ (NotifierDone /\ AddressAvailable /\ Triggered => sends # <<>>)

\* A creation on the last day of the window has ended with a send.
C1_Witness ==
    /\ pc = "n_returned"
    /\ created
    /\ instance.visa_expire_date - today = WindowDays
    /\ sends # <<>>

\* C7 (as claimed): whatever the admin step's render and sends do, no
\* exception leaves the handler before the employee step, and the handler
\* ends with a send to the employee when the employee has an address.
C7_AdminFailureNeverBlocks ==
    /\ (pc = "n_raised" => AttemptsOf("employee") # {})
    /\ (NotifierDone /\ Triggered /\ Truthy(ResolveEmpEmail(instance))
            => AttemptsOf("employee") # {})

\* Exactly one row of the User table is a superuser with an email address,
\* and no other row is a superuser.
OneAdminWithEmail ==
    /\ \E i \in 1..Len(users) : users[i].is_superuser
    /\ Len(SuperuserEmails(users)) = 1
    /\ SuperuserEmails(users)[1] # ""

\* C9 (as claimed): for a creation inside the window, of an employee with
\* an address, with one superuser with an email: the handler ends with
\* exactly two send_mail calls, the first to the superuser, the second to
\* the employee.
C9_ExactlyTwoAttempts ==
    NotifierDone /\ Triggered /\ OneAdminWithEmail /\ Truthy(ResolveEmpEmail(instance))
        => /\ Len(sends) = 2
           /\ sends[1].step = "admin"
           /\ sends[1].to = SuperuserEmails(users)
           /\ sends[2].step = "employee"
           /\ sends[2].to = <<ResolveEmpEmail(instance)>>

\* C10 (as claimed): when no superuser has an email address, send_mail is
\* not called for the admins.
C10_NoAdminSendWithoutAddress ==
    (\A i \in 1..Len(users) : users[i].is_superuser => users[i].email = "")
        => AttemptsOf("admin") = {}

\* ------------------------------ ConfiguredEmailBackend.send_messages
BackendReturned == pc = "b_returned"

\* N, the number of messages of the batch.
BatchSize == Len(MessageList(email_messages))

\* The EmailLog.objects.create calls that raised.
FailedWrites ==
    Cardinality({ i \in 1..Len(log) : log[i] = "Failed to write EmailLog entry." })

FailedWithDetail(row) == row.status = "failed" /\ Truthy(row.error_message)
SentWithoutDetail(row) == row.status = "sent" /\ ~Truthy(row.error_message)
AllRowsFailedWithDetail == \A i \in 1..Len(rows) : FailedWithDetail(rows[i])
AllRowsSentWithoutDetail == \A i \in 1..Len(rows) : SentWithoutDetail(rows[i])

\* C2 (as claimed): when the parent's send raised, the call ends with
\* exactly N audit rows, all "failed" with a non-empty error_message.
C2_ExactlyNFailedRows ==
    BackendReturned /\ parent.raised
        => Len(rows) = BatchSize /\ AllRowsFailedWithDetail

\* C2 (amended): when the parent's send raised, a write was attempted for
\* each of the N messages, the rows written are N less the writes that
\* failed, and each is "failed" with a non-empty error_message.
C2_FailedRowsPerStoredWrite ==
    BackendReturned /\ parent.raised
        => /\ Len(writes) = BatchSize
           /\ Len(rows) = BatchSize - FailedWrites
           /\ AllRowsFailedWithDetail

\* The parent raised on a batch of two or more and every row was written.
C2_Witness ==
    /\ BackendReturned
    /\ parent.raised
    /\ BatchSize >= 2
    /\ Len(rows) = BatchSize

\* C3 (as claimed): when the parent's send returned, whatever the count,
\* the call ends with exactly N audit rows, all "sent" with an empty
\* error_message.
C3_ExactlyNSentRows ==
    BackendReturned /\ ~parent.raised
        => Len(rows) = BatchSize /\ AllRowsSentWithoutDetail

\* C3 (amended): when the parent's send returned, a write was attempted for
\* each of the N messages, the rows written are N less the writes that
\* failed, each has no error_message, and each is "sent" when the count
\* returned is not 0 and "failed" when it is 0.
C3_RowsFollowReturnedCount ==
    BackendReturned /\ ~parent.raised
        => /\ Len(writes) = BatchSize
           /\ Len(rows) = BatchSize - FailedWrites
           /\ \A i \in 1..Len(rows) :
                /\ rows[i].error_message = NoneStr
                /\ rows[i].status = IF parent.value # 0 THEN "sent" ELSE "failed"

\* The parent returned a count above 0 for a batch of two or more and every
\* row was written, all "sent".
C3_Witness ==
    /\ BackendReturned
    /\ ~parent.raised
    /\ parent.value > 0
    /\ BatchSize >= 2
    /\ Len(rows) = BatchSize
    /\ AllRowsSentWithoutDetail

\* C4: no exception leaves send_messages: from every position short of the
\* return a step is possible, and the value returned is 0 when the parent's
\* send raised and the parent's return value otherwise, whatever the audit
\* writes did.
C4_ReturnsNeverRaises ==
    /\ pc # "b_raised"
    /\ (pc \in {"b_start", "b_audit"} => ENABLED BackendNext)
    /\ (BackendReturned => returned = IF parent.raised THEN 0 ELSE parent.value)

\* The parent returned a count above 0, an audit write failed, and the
\* count was returned.
C4_Witness ==
    /\ BackendReturned
    /\ ~parent.raised
    /\ parent.value > 0
    /\ FailedWrites > 0
    /\ returned = parent.value

\* C8: the audit loop calls EmailLog.objects.create once per message, in
\* batch order, whether or not earlier calls failed; at the return every
\* message has had its call and the rows written are N less the failed
\* calls, in batch order.
C8_OneWritePerMessage ==
    /\ (pc \in {"b_audit", "b_returned"}
            => writes = SubSeq(MessageList(email_messages), 1, idx - 1))
    /\ (BackendReturned
            => /\ writes = MessageList(email_messages)
               /\ Len(rows) = BatchSize - FailedWrites)
    /\ \A i, j \in 1..Len(rows) : i < j => rows[i].message < rows[j].message

\* The first message's write failed and a later message's row was written.
C8_Witness ==
    /\ BackendReturned
    /\ FailedWrites > 0
    /\ rows # <<>>
    /\ rows[1].message > 1

\* ---------------------------------------- DefaultHorillaMailBackend
\* The queries of the lookup returned (the database answered).
QueryAnswered ==
    /\ pc \in {"r_cache", "r_init", "r_done"}
    /\ \A i \in 1..Len(log) : log[i] # "Error querying DynamicEmailConfiguration."

\* The request's user is authenticated and get_company() returned company c.
UserOfCompany(c) ==
    request.kind = "auth" /\ ~request.raises /\ request.company = c

RowsOf(table) == { table[i] : i \in 1..Len(table) }

\* C5: for an authenticated user of company C, whatever the table holds:
\* the record found is a row of company C when the table has one (even when
\* another row is primary), else a primary row when the table has one, else
\* None.
C5_CompanyThenPrimaryThenNone ==
    \A c \in Companies :
        QueryAnswered /\ UserOfCompany(c)
            => IF \E row \in RowsOf(store) : row.company_id = c
               THEN configuration \in RowsOf(store) /\ configuration.company_id = c
               ELSE IF \E row \in RowsOf(store) : row.is_primary
                    THEN configuration \in RowsOf(store) /\ configuration.is_primary
                    ELSE configuration = NoConfiguration

\* The table holds a primary row of another company before the row of the
\* user's company, and the lookup found the latter.
C5_Witness ==
    /\ QueryAnswered
    /\ UserOfCompany(1)
    /\ Len(store) = 2
    /\ store[1].is_primary
    /\ store[1].company_id # 1
    /\ store[2].company_id = 1
    /\ ~store[2].is_primary
    /\ configuration = store[2]

\* The parameters the claims name.
TransportParams == {"host", "port", "username", "password", "use_tls", "use_ssl", "timeout"}

\* C6 (as claimed): each parameter is the record's field when a record was
\* found and the field is set, and the setting otherwise.
C6_FallbackPerField ==
    pc = "r_done"
        => \A p \in TransportParams :
            resolved[p] = IF configuration # NoConfiguration /\ p \notin configuration.unset
                          THEN FromRecord(configuration.pk)
                          ELSE FromSettings

\* C6 (amended): the fallback is per record, not per field: when a record
\* was found each parameter is that record's field, set or unset, and when
\* none was found each parameter is the setting.
C6_FallbackPerRecord ==
    pc = "r_done"
        => \A p \in TransportParams :
            resolved[p] = IF configuration = NoConfiguration THEN FromSettings
                          ELSE IF p \in configuration.unset THEN UnsetValue
                          ELSE FromRecord(configuration.pk)

\* A record with an unset host was found: host is resolved to the unset
\* value, port to the record's.
C6_Witness ==
    /\ pc = "r_done"
    /\ configuration # NoConfiguration
    /\ configuration.unset = {"host"}
    /\ resolved["host"] = UnsetValue
    /\ resolved["port"] = FromRecord(configuration.pk)

\* The failure kinds the trace requirement names.
FailureKinds == {"configuration lookup", "transport send", "audit write", "template render"}

\* Some except clause of the execution has caught a failure of a named kind.
SwallowedFailure == \E i \in 1..Len(swallowed) : swallowed[i] \in FailureKinds

\* The execution has written a log record, or stored an audit row that
\* carries error detail.
ObservableTrace ==
    \/ log # <<>>
    \/ \E i \in 1..Len(rows) : Truthy(rows[i].error_message)

\* C11 (as claimed): every swallowed failure leaves an observable trace: an
\* execution of the backend, the message factory or the notifier that has
\* swallowed a configuration-lookup, transport-send, audit-write or
\* template-render failure has written at least one log record or stored an
\* audit row with error detail.
C11_SwallowedFailureLeavesTrace == SwallowedFailure => ObservableTrace

====
